---- MODULE Spec2Model ----
(***************************************************************************)
(* Model of gmw/wavelets.py: the MorseWavelet class (generalised Morse      *)
(* wavelets in the frequency domain and the FFT-based continuous wavelet    *)
(* transform).                                                              *)
(*                                                                          *)
(* Numbers.  beta and gamma are exact rationals <<numerator, denominator>>  *)
(* (denominator > 0); scales are small integers.  A float that the code     *)
(* computes is represented by its IEEE class:                               *)
(*    "nan" "ninf" "neg" "zero" "pos" "pinf"   and, where the sign of a     *)
(*    finite value is not determined by the classes of the operands,        *)
(*    "fin" (finite, any sign, maybe zero) and "top" (any float).           *)
(* The arithmetic on classes is numpy's (IEEE 754 with the warnings of      *)
(* np.errstate ignored); magnitudes are taken small enough that exp, pow    *)
(* and the products neither overflow nor underflow.                         *)
(***************************************************************************)
EXTENDS Integers, Sequences, FiniteSets, TLC

VARIABLES self, heap, call

vars == <<self, heap, call>>

----------------------------------------------------------------------------
(* Bounds of the model *)

MaxFreqs == 2
MaxScales == 2
MaxK == 1
MaxSignalLen == 13
MaxLength == 2

----------------------------------------------------------------------------
(* Rationals <<n, d>>, d > 0 *)

RPos(q) == q[1] > 0

RIsInteger(q) == q[1] % q[2] = 0

RIsEven(q) == RIsInteger(q) /\ (q[1] \div q[2]) % 2 = 0

Sign(i) == IF i < 0 THEN "neg" ELSE IF i = 0 THEN "zero" ELSE "pos"

----------------------------------------------------------------------------
(* IEEE arithmetic on classes *)

IsInf(a) == a \in {"ninf", "pinf"}

IsNegative(a) == a \in {"ninf", "neg"}

Flip(a) ==
    CASE a = "ninf" -> "pinf"
      [] a = "pinf" -> "ninf"
      [] a = "neg" -> "pos"
      [] a = "pos" -> "neg"
      [] OTHER -> a

Mul(a, b) ==
    IF a = "nan" \/ b = "nan" THEN "nan"
    ELSE IF a = "top" \/ b = "top" THEN "top"
    ELSE IF (a = "zero" /\ IsInf(b)) \/ (IsInf(a) /\ b = "zero") THEN "nan"
    ELSE IF a = "zero" \/ b = "zero" THEN "zero"
    ELSE IF (a = "fin" /\ IsInf(b)) \/ (IsInf(a) /\ b = "fin") THEN "top"
    ELSE IF a = "fin" \/ b = "fin" THEN "fin"
    ELSE IF IsInf(a) \/ IsInf(b)
         THEN (IF IsNegative(a) = IsNegative(b) THEN "pinf" ELSE "ninf")
    ELSE IF IsNegative(a) = IsNegative(b) THEN "pos" ELSE "neg"

Add(a, b) ==
    IF a = "nan" \/ b = "nan" THEN "nan"
    ELSE IF a = "top" \/ b = "top" THEN "top"
    ELSE IF IsInf(a) /\ IsInf(b) THEN (IF a = b THEN a ELSE "nan")
    ELSE IF IsInf(a) THEN a
    ELSE IF IsInf(b) THEN b
    ELSE IF a = "zero" THEN b
    ELSE IF b = "zero" THEN a
    ELSE IF a = b THEN a
    ELSE "fin"

Sub(a, b) == Add(a, Flip(b))

\* np.exp
Exp(a) ==
    CASE a = "nan" -> "nan"
      [] a = "top" -> "top"
      [] a = "ninf" -> "zero"
      [] a = "pinf" -> "pinf"
      [] OTHER -> "pos"

\* np.log, with divide='ignore', invalid='ignore' or the default warnings
Log(a) ==
    CASE a \in {"nan", "neg", "ninf"} -> "nan"
      [] a = "zero" -> "ninf"
      [] a = "pos" -> "fin"
      [] a = "pinf" -> "pinf"
      [] OTHER -> "top"

\* a ** g for an exponent g > 0 given as a rational
Pow(a, g) ==
    CASE a \in {"nan", "zero", "pos", "pinf", "top"} -> a
      [] a = "fin" -> IF RIsInteger(g) THEN "fin" ELSE "top"
      [] a = "neg" -> IF RIsInteger(g)
                      THEN (IF RIsEven(g) THEN "pos" ELSE "neg")
                      ELSE "nan"
      [] a = "ninf" -> IF RIsInteger(g) /\ ~RIsEven(g) THEN "ninf" ELSE "pinf"

\* a / b on numpy floats (division by zero gives an infinity or nan)
Div(a, b) ==
    IF a = "nan" \/ b = "nan" THEN "nan"
    ELSE IF a = "top" \/ b \in {"top", "fin"} THEN "top"
    ELSE IF b = "zero"
         THEN (CASE a = "zero" -> "nan"
                 [] a = "fin" -> "top"
                 [] IsNegative(a) -> "ninf"
                 [] OTHER -> "pinf")
    ELSE IF IsInf(b) THEN (IF IsInf(a) THEN "nan" ELSE "zero")
    ELSE IF b = "neg" THEN Flip(a)
    ELSE a

\* np.heaviside(a, 0.5)
Heaviside(a) ==
    CASE a = "nan" -> "nan"
      [] a \in {"neg", "ninf"} -> "zero"
      [] a \in {"zero", "pos", "pinf"} -> "pos"
      [] OTHER -> "top"

----------------------------------------------------------------------------
(* scipy.special *)

\* loggamma(x) for a real x > 0 is a finite real of either sign
loggamma(x) == IF x = "pos" THEN "fin" ELSE "top"

\* eval_genlaguerre(k, alpha, x) for an integer order k >= 0, alpha = r - 1
\* (so alpha <= -1 iff r <= 0): nan for a nan argument, 1 for k = 0,
\* binom(k + alpha, k) > 0 at x = 0, a finite real at a finite x.
eval_genlaguerre(k, r, x) ==
    IF ~RPos(r) THEN "nan"
    ELSE IF x = "nan" THEN "nan"
    ELSE IF k = 0 THEN "pos"
    ELSE IF x = "zero" THEN "pos"
    ELSE IF x \in {"neg", "pos", "fin"} THEN "fin"
    ELSE "top"

----------------------------------------------------------------------------
(* class MorseWavelet *)

Norms == {"analytic", "energy"}

None == [beta |-> <<0, 1>>, gamma |-> <<0, 1>>, norm |-> "None"]

\* InitOutcomeStrict: __init__ testing beta < 0 or gamma < 0
InitOutcomeStrict(beta, gamma, norm) ==
    IF beta[1] < 0 \/ gamma[1] < 0 THEN "ValueError"
    ELSE IF norm \notin Norms THEN "ValueError"
    ELSE "returned"

\* the exception __init__ raises, or "returned"
InitOutcome(beta, gamma, norm) ==
    IF ~RPos(beta) \/ ~RPos(gamma) THEN "ValueError"
    ELSE IF norm \notin Norms THEN "ValueError"
    ELSE "returned"

\* r = (2 * beta + 1) / gamma
R(w) == <<(2 * w.beta[1] + w.beta[2]) * w.gamma[2], w.beta[2] * w.gamma[1]>>

RCls(q) == Sign(q[1])

\* logA of psi_f; s is the class of scale
LogA(w, s, k) ==
    IF w.norm = "energy"
    THEN Mul("pos",
             Add(Add(Add(Log(Div(Mul("pos", RCls(w.gamma)), s)),
                         Mul(Add(RCls(R(w)), "pos"), Log("pos"))),
                     loggamma(Add(Sign(k), "pos"))),
                 Flip(loggamma(Add(Sign(k), RCls(R(w)))))))
    ELSE Add(Log(Div("pos", s)),
             Mul(Div(RCls(w.beta), RCls(w.gamma)),
                 Add("pos", Log(Div(RCls(w.gamma), RCls(w.beta))))))

\* psi_f_validated: psi_f with a check of scale ahead of the formula
psi_f_validated(scale, isnp) ==
    IF scale <= 0 THEN "ValueError" ELSE "returned"

\* the exception psi_f raises, or "returned": scale is not checked, and
\* 2 / scale or np.pi * gamma / scale on a Python number (isnp false)
\* divides by a Python 0; a numpy scalar 0 gives an infinity instead
psi_f_outcome(scale, isnp) ==
    IF ~isnp /\ scale = 0 THEN "ZeroDivisionError" ELSE "returned"

\* MaskTargetArg: the masking storing into the argument array
MaskTargetArg(f) == f

\* the array the in-place nan masking stores into, in a call on the array f
MaskTarget(f) == "wav0"

Locals(n) == [aw |-> [i \in 1..n |-> "zero"], H |-> [i \in 1..n |-> "zero"],
              wav0 |-> [i \in 1..n |-> "zero"], out |-> [i \in 1..n |-> "zero"]]

\* psi_f on the array h[f] (freqs is an np.ndarray, whose nan entries are
\* masked in place; a scalar takes the other branch, which rebinds wav0 to
\* the same value), as the heap it leaves: its locals aw, H, wav0 and the
\* returned array out are freshly allocated
psi_f(h, f, w, scale, k) ==
    LET n == Len(h[f])
        s == Sign(scale)
        h0 == Locals(n) @@ h
        h1 == [h0 EXCEPT !["aw"] =
                  [i \in 1..n |-> Mul(Mul(Mul(s, "pos"), "pos"), h0[f][i])]]
        h2 == [h1 EXCEPT !["H"] = [i \in 1..n |-> Heaviside(h1["aw"][i])]]
        h3 == [h2 EXCEPT !["wav0"] =
                  [i \in 1..n |->
                     Mul(Mul(s, h2["H"][i]),
                         Exp(Add(Sub(LogA(w, s, k), Pow(h2["aw"][i], w.gamma)),
                                 Mul(RCls(w.beta), Log(h2["aw"][i])))))]]
        h4 == [h3 EXCEPT ![MaskTarget(f)] =
                  [i \in 1..n |-> IF h3["wav0"][i] = "nan" THEN "zero" ELSE @[i]]]
    IN  [h4 EXCEPT !["out"] =
            [i \in 1..n |->
               Mul(h4["wav0"][i],
                   eval_genlaguerre(k, R(w),
                                    Mul("pos", Pow(h4["aw"][i], w.gamma))))]]

\* central_freq(scale): (beta / gamma)^(1 / gamma) / (2 pi) is a positive
\* constant c of the wavelet, and the value is c / scale
central_freq(w, scale) ==
    [cls |-> Div(Mul(Div(Pow(Div(RCls(w.beta), RCls(w.gamma)),
                             <<w.gamma[2], w.gamma[1]>>),
                         Sign(scale)), "pos"), "pos"),
     over |-> scale]

\* the exception central_freq raises, or "returned"
central_freq_outcome(scale, isnp) ==
    IF ~isnp /\ scale = 0 THEN "ZeroDivisionError" ELSE "returned"

\* psi_t_approx: psi_t returning a value
psi_t_approx(length, scale, k) == "returned"

\* psi_t(length, scale, k)
psi_t_outcome(length, scale, k) == "NotImplementedError"

----------------------------------------------------------------------------
(* scipy.fft *)

FastPrimes == {2, 3, 5, 7, 11}

RECURSIVE Strip(_, _)
\* m with every factor p removed
Strip(m, p) == IF m % p = 0 THEN Strip(m \div p, p) ELSE m

RECURSIVE StripAll(_, _)
StripAll(m, ps) ==
    IF ps = {} THEN m
    ELSE LET p == CHOOSE q \in ps : TRUE IN StripAll(Strip(m, p), ps \ {p})

IsFastLen(m) == m >= 1 /\ StripAll(m, FastPrimes) = 1

\* fft.next_fast_len(n): the smallest 11-smooth number >= n (2n would do:
\* a power of two lies in n..2n)
next_fast_len(n) ==
    IF n <= 0 THEN 0
    ELSE CHOOSE m \in n..(2 * n) :
            IsFastLen(m) /\ \A l \in n..(m - 1) : ~IsFastLen(l)

\* fft.fftfreq(m, d): bins 0, 1, ..., (m-1)//2, -(m//2), ..., -1 over d*m
fftfreq(m, d) ==
    [j \in 1..m |->
        Div(IF j = 1 THEN "zero"
            ELSE IF j - 1 <= (m - 1) \div 2 THEN "pos" ELSE "neg",
            Mul(Sign(d), "pos"))]

\* fft.fft(signal, n=m): bin j of the m-point transform of the signal
\* zero-padded (or cropped) to m samples
fft(signal, m) ==
    [j \in 1..m |-> [bin |-> j, samples |-> Len(signal), points |-> m]]

\* fft.ifft(x, n=n): the input is cropped to its first n bins when n is
\* smaller than its length and zero-padded when larger; n output samples.
\* The bins that enter the inverse transform are recorded, in order.
ifft(x, n) ==
    [spectrum |-> [j \in 1..n |->
                      IF j <= Len(x) THEN x[j]
                      ELSE [bin |-> 0, samples |-> 0, points |-> 0,
                            psi |-> "zero"]],
     n |-> n]

----------------------------------------------------------------------------
(* MorseWavelet.cwt *)

\* ScaleAtReversed: the list comprehension walking scales backwards
ScaleAtReversed(scales, i) == scales[Len(scales) + 1 - i]

\* the scale of the i-th iteration of `for scale in scales`
ScaleAt(scales, i) == scales[i]

\* IfftLenPadded: the inverse transform without n=n
IfftLenPadded(n, fast_len) == fast_len

\* the n= argument of the inverse transform
IfftLen(n, fast_len) == n

RECURSIVE cwt_outcome(_, _)
\* the exception cwt raises, or "returned": the first one a psi_f call
\* on an element of the numpy array scales raises
cwt_outcome(scales, i) ==
    IF i > Len(scales) THEN "returned"
    ELSE IF psi_f_outcome(ScaleAt(scales, i), TRUE) # "returned"
         THEN psi_f_outcome(ScaleAt(scales, i), TRUE)
    ELSE cwt_outcome(scales, i + 1)

RECURSIVE CwtRows(_, _, _)
\* the first i evaluations psi_f(fs, scale) of the list comprehension, in
\* order, and the heap they leave; h holds the local array fs
CwtRows(h, w, i) ==
    IF i = 0 THEN [rows |-> <<>>, heap |-> h]
    ELSE LET prev == CwtRows(h, w, i - 1)
             after == psi_f(prev.heap, "fs", w, ScaleAt(h["scales"], i), 0)
         IN  [rows |-> Append(prev.rows, after["out"]), heap |-> after]

\* cwt(signal, scales, dt) on the caller's arrays h["signal"] and
\* h["scales"]: the values returned and the heap left
cwt(h, w, dt) ==
    LET n == Len(h["signal"])
        fast_len == next_fast_len(n)
        h1 == [fs |-> fftfreq(fast_len, dt)] @@ h
        f_sig == fft(h1["signal"], fast_len)
        m == Len(h1["scales"])
        done == CwtRows(h1, w, m)
        psi == done.rows
        prod == [i \in 1..m |->
                    [j \in 1..fast_len |->
                        [bin |-> f_sig[j].bin, samples |-> f_sig[j].samples,
                         points |-> f_sig[j].points, psi |-> psi[i][j]]]]
    IN  [fast_len |-> fast_len,
         W |-> [i \in 1..m |->
                   [scale |-> ScaleAt(h1["scales"], i), k |-> 0]
                   @@ ifft(prod[i], IfftLen(n, fast_len))],
         freqs |-> [i \in 1..m |-> central_freq(w, h1["scales"][i])],
         heap |-> done.heap]

----------------------------------------------------------------------------
(* Inputs *)

Betas == {<<-1, 1>>, <<0, 1>>, <<2, 5>>, <<5, 1>>}

Gammas == {<<-1, 1>>, <<0, 1>>, <<1, 1>>, <<2, 1>>, <<11, 10>>}

NormTags == Norms \cup {"invalid"}

FreqValues == {"neg", "zero", "pos"}

ScaleValues == {-1, 0, 1, 2}

DtValues == {1}

SeqsUpTo(S, n) == UNION {[1..l -> S] : l \in 1..n}

----------------------------------------------------------------------------
(* State *)

NoArgs == [freqs |-> <<>>, signal |-> <<>>, scales |-> <<>>]

Idle == [op |-> "idle", outcome |-> "none", args |-> NoArgs,
         beta |-> <<0, 1>>, gamma |-> <<0, 1>>, norm |-> "None",
         scale |-> 0, k |-> 0, isnp |-> FALSE, length |-> 0, dt |-> 0,
         fast_len |-> 0, ret |-> <<>>, freqs |-> <<>>, W |-> <<>>]

\* the caller's arrays among the arrays of a heap
Caller(h) == [a \in DOMAIN NoArgs |-> h[a]]

Valid(w) == RPos(w.beta) /\ RPos(w.gamma) /\ w.norm \in Norms

Init ==
    /\ self = None
    /\ heap = NoArgs
    /\ call = Idle

\* MorseWavelet(beta, gamma, norm)
Construct ==
    \E beta \in Betas, gamma \in Gammas, norm \in NormTags :
        /\ call.op = "idle"
        /\ call' = [Idle EXCEPT !.op = "__init__",
                                !.outcome = InitOutcome(beta, gamma, norm),
                                !.beta = beta, !.gamma = gamma, !.norm = norm]
        /\ self' = IF InitOutcome(beta, gamma, norm) = "returned"
                   THEN [beta |-> beta, gamma |-> gamma, norm |-> norm]
                   ELSE self
        /\ heap' = NoArgs

\* self.psi_f(freqs, scale, k)
PsiF ==
    \E freqs \in SeqsUpTo(FreqValues, MaxFreqs), scale \in ScaleValues,
       k \in 0..MaxK, isnp \in BOOLEAN :
        LET h == [NoArgs EXCEPT !.freqs = freqs]
            after == psi_f(h, "freqs", self, scale, k)
        IN  /\ call.op = "idle"
            /\ self # None
            /\ IF psi_f_outcome(scale, isnp) # "returned"
               THEN /\ call' = [Idle EXCEPT
                                  !.op = "psi_f",
                                  !.outcome = psi_f_outcome(scale, isnp),
                                  !.args = h, !.scale = scale,
                                  !.k = k, !.isnp = isnp]
                    /\ heap' = h
               ELSE /\ call' = [Idle EXCEPT !.op = "psi_f",
                                            !.outcome = "returned",
                                            !.args = h, !.scale = scale,
                                            !.k = k, !.isnp = isnp,
                                            !.ret = after["out"]]
                    /\ heap' = Caller(after)
            /\ UNCHANGED self

\* self.central_freq(scale)
CentralFreq ==
    \E scale \in ScaleValues, isnp \in BOOLEAN :
        /\ call.op = "idle"
        /\ self # None
        /\ call' = [Idle EXCEPT
                       !.op = "central_freq", !.scale = scale, !.isnp = isnp,
                       !.outcome = central_freq_outcome(scale, isnp),
                       !.freqs = IF central_freq_outcome(scale, isnp) # "returned"
                                 THEN <<>> ELSE <<central_freq(self, scale)>>]
        /\ heap' = NoArgs
        /\ UNCHANGED self

\* self.psi_t(length, scale, k)
PsiT ==
    \E length \in 1..MaxLength, scale \in ScaleValues, k \in 0..MaxK :
        /\ call.op = "idle"
        /\ self # None
        /\ call' = [Idle EXCEPT !.op = "psi_t", !.length = length,
                                !.scale = scale, !.k = k,
                                !.outcome = psi_t_outcome(length, scale, k)]
        /\ heap' = NoArgs
        /\ UNCHANGED self

\* self.cwt(signal, scales, dt) on numpy arrays
Cwt ==
    \E n \in 1..MaxSignalLen, scales \in SeqsUpTo(ScaleValues, MaxScales),
       dt \in DtValues :
        LET h == [NoArgs EXCEPT !.signal = [i \in 1..n |-> i],
                                !.scales = scales]
            res == cwt(h, self, dt)
        IN  /\ call.op = "idle"
            /\ self # None
            /\ IF cwt_outcome(scales, 1) # "returned"
               THEN /\ call' = [Idle EXCEPT !.op = "cwt", !.args = h,
                                            !.outcome = cwt_outcome(scales, 1),
                                            !.dt = dt, !.isnp = TRUE]
                    /\ heap' = h
               ELSE /\ call' = [Idle EXCEPT !.op = "cwt", !.outcome = "returned",
                                            !.args = h, !.dt = dt, !.isnp = TRUE,
                                            !.fast_len = res.fast_len,
                                            !.freqs = res.freqs, !.W = res.W]
                    /\ heap' = Caller(res.heap)
            /\ UNCHANGED self

\* the caller drops the result and its arrays
Return ==
    /\ call.op # "idle"
    /\ call' = Idle
    /\ heap' = NoArgs
    /\ UNCHANGED self

Next == Construct \/ PsiF \/ CentralFreq \/ PsiT \/ Cwt \/ Return

Spec == Init /\ [][Next]_vars

----------------------------------------------------------------------------
(* Properties *)

Invalid(beta, gamma, norm) ==
    ~RPos(beta) \/ ~RPos(gamma) \/ norm \notin {"analytic", "energy"}

NonPositive(scales) == {i \in DOMAIN scales : scales[i] <= 0}

\* C1: the constructor raises ValueError exactly when beta <= 0, gamma <= 0
\* or norm is neither 'analytic' nor 'energy'; otherwise it returns the
\* object with the fields as given; no object with beta <= 0, gamma <= 0
\* or an unrecognized norm exists.
ConstructorValidates ==
    /\ self # None => Valid(self)
    /\ call.op = "__init__" =>
          /\ Invalid(call.beta, call.gamma, call.norm)
                => call.outcome = "ValueError"
          /\ ~Invalid(call.beta, call.gamma, call.norm)
                => /\ call.outcome = "returned"
                   /\ self = [beta |-> call.beta, gamma |-> call.gamma,
                               norm |-> call.norm]

\* C1 witness: a construction with beta = 0 and otherwise valid arguments
\* has raised ValueError.
ConstructorRejectedZeroBeta ==
    /\ call.op = "__init__"
    /\ call.beta = <<0, 1>>
    /\ RPos(call.gamma)
    /\ call.norm = "analytic"
    /\ call.outcome = "ValueError"

\* C2: for a valid wavelet, scale > 0 and k >= 0, psi_f returns exactly 0
\* (never nan) at every frequency f <= 0.
OneSidedSupport ==
    (call.op = "psi_f" /\ call.outcome = "returned" /\ call.scale > 0) =>
        \A i \in DOMAIN call.args.freqs :
            call.args.freqs[i] \in {"neg", "zero"} => call.ret[i] = "zero"

\* C3, as stated: psi_f with a scale <= 0, and cwt with a scale <= 0 among
\* its scales, fail with ValueError.
NonPositiveScaleRejected ==
    /\ (call.op = "psi_f" /\ call.scale <= 0) => call.outcome = "ValueError"
    /\ (call.op = "cwt" /\ NonPositive(call.args.scales) # {})
          => call.outcome = "ValueError"

\* C3, amended: scale is not validated and ValueError is never raised for
\* it.  psi_f with a scale <= 0 returns an array of the length of freqs
\* whose entries are 0 or nan, except that a Python number 0 raises
\* ZeroDivisionError; cwt with a scale <= 0 among the elements of its
\* numpy array of scales returns one row and one frequency per scale.
NonPositiveScaleNotValidated ==
    /\ (call.op = "psi_f" /\ call.scale <= 0) =>
          IF call.scale = 0 /\ ~call.isnp
          THEN call.outcome = "ZeroDivisionError"
          ELSE /\ call.outcome = "returned"
               /\ Len(call.ret) = Len(call.args.freqs)
               /\ \A i \in DOMAIN call.ret : call.ret[i] \in {"zero", "nan"}
    /\ (call.op = "cwt" /\ NonPositive(call.args.scales) # {}) =>
          /\ call.outcome = "returned"
          /\ Len(call.W) = Len(call.args.scales)
          /\ Len(call.freqs) = Len(call.args.scales)

\* C3 witness: psi_f has returned for a negative scale.
NegativeScaleReturned ==
    /\ call.op = "psi_f"
    /\ call.scale < 0
    /\ call.outcome = "returned"
    /\ Len(call.ret) = MaxFreqs

\* C4: for a non-empty signal and a non-empty sequence of positive scales
\* cwt returns len(scales) rows of len(signal) samples each and len(scales)
\* central frequencies.
TransformShape ==
    (call.op = "cwt" /\ NonPositive(call.args.scales) = {}) =>
        /\ call.outcome = "returned"
        /\ Len(call.W) = Len(call.args.scales)
        /\ \A i \in DOMAIN call.W : call.W[i].n = Len(call.args.signal)
        /\ Len(call.freqs) = Len(call.args.scales)

\* C4 witness: cwt has returned for a signal shorter than the padded
\* length, with several positive scales.
PaddedTransformReturned ==
    /\ call.op = "cwt"
    /\ call.outcome = "returned"
    /\ NonPositive(call.args.scales) = {}
    /\ Len(call.args.scales) > 1
    /\ call.fast_len > Len(call.args.signal)

\* the wavelet psi_f evaluates on the frequency bins of cwt, for one scale
RowOf(scale) ==
    psi_f([fs |-> fftfreq(call.fast_len, call.dt)], "fs", self, scale, 0)["out"]

\* C5: cwt keeps the order of scales: the i-th central frequency is
\* central_freq(scales[i]) and the i-th row is the one computed with the
\* wavelet of order 0 evaluated at scales[i].
ScaleOrderPreserved ==
    (call.op = "cwt" /\ call.outcome = "returned") =>
        /\ DOMAIN call.W = DOMAIN call.args.scales
        /\ DOMAIN call.freqs = DOMAIN call.args.scales
        /\ \A i \in DOMAIN call.args.scales :
              /\ call.freqs[i] = central_freq(self, call.args.scales[i])
              /\ call.W[i].scale = call.args.scales[i]
              /\ call.W[i].k = 0
              /\ LET row == RowOf(call.args.scales[i])
                 IN  \A j \in DOMAIN call.W[i].spectrum :
                         call.W[i].spectrum[j].psi = row[j]

\* C5 witness: cwt has returned for two different positive scales given
\* in decreasing order.
DecreasingScalesTransformed ==
    /\ call.op = "cwt"
    /\ call.outcome = "returned"
    /\ call.args.scales = <<2, 1>>
    /\ call.W[1].scale = 2

\* C6: psi_t always raises NotImplementedError and returns nothing.
SynthesisNotImplemented ==
    call.op = "psi_t" =>
        /\ call.outcome = "NotImplementedError"
        /\ call.ret = <<>>
        /\ call.freqs = <<>>
        /\ call.W = <<>>

\* C6 witness: psi_t has been called on a valid wavelet.
SynthesisCalled ==
    /\ call.op = "psi_t"
    /\ Valid(self)
    /\ call.length = MaxLength

\* C7: psi_f, central_freq, cwt and psi_t leave the wavelet's beta, gamma
\* and norm as they were (and valid) and leave the caller's frequency,
\* signal and scales arrays as they were passed.
NoSideEffects ==
    [][call'.op \in {"psi_f", "central_freq", "cwt", "psi_t"} =>
          /\ self' = self
          /\ Valid(self')
          /\ heap' = call'.args]_vars

\* C7 witness: psi_f has returned after masking a nan of wav0 (a negative
\* frequency), and the caller's array still holds that frequency.
MaskedWithoutTouchingInput ==
    /\ call.op = "psi_f"
    /\ call.outcome = "returned"
    /\ call.args.freqs = <<"neg", "pos">>
    /\ heap.freqs = <<"neg", "pos">>
    /\ call.ret[2] # "zero"

\* C10: in cwt (on positive scales) the padded length is at least
\* len(signal), and every row is the inverse transform of all padded-length
\* bins of the product, cut to len(signal) samples.
AllBinsInverted ==
    (call.op = "cwt" /\ call.outcome = "returned"
       /\ NonPositive(call.args.scales) = {}) =>
        /\ call.fast_len >= Len(call.args.signal)
        /\ \A i \in DOMAIN call.W :
              /\ {call.W[i].spectrum[j].bin : j \in DOMAIN call.W[i].spectrum}
                    = 1..call.fast_len
              /\ call.W[i].n = Len(call.args.signal)

====
